---------------------------- MODULE Spec2Model ----------------------------
(***************************************************************************)
(* A model of the primelinks Telegram deals bot: the document store        *)
(* (src/database.py), the page extractor and URL validation                *)
(* (src/scraper.py) and the command handlers with the in-memory catalog    *)
(* cache PRODUCTS (src/main.py).                                           *)
(*                                                                         *)
(* Text values are sequences of character tokens, so that strip(),         *)
(* clean_price() and the substring tests of the code are computed and not  *)
(* assumed.  Python's None is the one-token sequence None.  A URL is a     *)
(* record of two token sequences, netloc and rest (path and query).        *)
(*                                                                         *)
(* The handlers run on one event loop: a handler is atomic between two     *)
(* awaits.  The /link handler is split into its stages; the stages after   *)
(* its first await block the loop (time.sleep, synchronous database calls) *)
(* so no other handler runs between them.                                  *)
(***************************************************************************)
EXTENDS Integers, Sequences, FiniteSets, TLC

(* ------------------------------ bounds -------------------------------- *)

\* the number of ObjectIds the store hands out in one run
MaxProducts == 2

\* the last reading of the wall clock
MaxClock == 2

\* the MongoClient objects made (the one of Database.__init__ included)
MaxConnections == 2

(* ------------------------- program constants -------------------------- *)

\* get_product_details(url, max_retries=3)
max_retries == 3

\* ADMIN_IDS, read from the environment at start-up
ADMIN_IDS == {1}

\* the users that send commands
UserIds == {1, 2}

\* the category names that commands carry, before capitalize()
CatArgs == {"home", "Toys"}

NoArg == "<no-arg>"

(* ------------------------------ text ---------------------------------- *)

None == <<"<None>">>

\* Python truthiness of an optional text or list value
Truthy(v) == v # None /\ v # <<>>

Range(s) == {s[i] : i \in 1..Len(s)}

RECURSIVE LStrip(_)
LStrip(s) == IF s # <<>> /\ Head(s) = " " THEN LStrip(Tail(s)) ELSE s

RECURSIVE RStrip(_)
RStrip(s) ==
    IF s # <<>> /\ s[Len(s)] = " " THEN RStrip(SubSeq(s, 1, Len(s) - 1)) ELSE s

\* str.strip()
Strip(s) == RStrip(LStrip(s))

Digits == {"0", "1", "2", "3", "4", "5", "6", "7", "8", "9"}

\* re.sub(r'[^\d.]', '', s)
RECURSIVE KeepDigits(_)
KeepDigits(s) ==
    IF s = <<>> THEN <<>>
    ELSE IF Head(s) \in Digits \cup {"."}
         THEN <<Head(s)>> \o KeepDigits(Tail(s))
         ELSE KeepDigits(Tail(s))

\* clean_price(price_str); "Rs" stands for the rupee sign
clean_price(price_str) ==
    IF ~Truthy(price_str) THEN None ELSE <<"Rs">> \o KeepDigits(price_str)

\* int(c) of one digit character
DigitValue(c) ==
    CASE c = "0" -> 0 [] c = "1" -> 1 [] c = "2" -> 2 [] c = "3" -> 3 [] c = "4" -> 4
      [] c = "5" -> 5 [] c = "6" -> 6 [] c = "7" -> 7 [] c = "8" -> 8 [] c = "9" -> 9

RECURSIVE DigitsValue(_)
\* the number a text of digits denotes, 0 for the empty text
DigitsValue(s) ==
    IF s = <<>> THEN 0
    ELSE 10 * DigitsValue(SubSeq(s, 1, Len(s) - 1)) + DigitValue(s[Len(s)])

RECURSIVE Pow10(_)
Pow10(k) == IF k = 0 THEN 1 ELSE 10 * Pow10(k - 1)

\* float(s) on a text of digits and dots: ValueError when the text has no
\* digit or more than one dot; otherwise the value, as the fraction num/den
Float(s) ==
    LET dots == {i \in 1..Len(s) : s[i] = "."}
        digits == SelectSeq(s, LAMBDA c : c \in Digits)
    IN IF digits = <<>> \/ Cardinality(dots) > 1
       THEN [error |-> TRUE, num |-> 0, den |-> 1]
       ELSE [error |-> FALSE,
             num |-> DigitsValue(digits),
             den |-> IF dots = {} THEN 1
                     ELSE Pow10(Len(s) - (CHOOSE i \in dots : TRUE))]

\* int(x) of the fraction n/d with d > 0: truncation towards zero
IntOf(n, d) == IF n >= 0 THEN n \div d ELSE -((-n) \div d)

RECURSIVE NatText(_)
NatText(n) ==
    LET last == <<CHOOSE c \in Digits : DigitValue(c) = n % 10>>
    IN IF n < 10 THEN last ELSE NatText(n \div 10) \o last

\* str(n) of an integer
IntText(n) == IF n < 0 THEN <<"-">> \o NatText(-n) ELSE NatText(n)

\* extract_discount(current_price, original_price); the bare `except`
\* turns the ValueError of float() into the None of the last line
extract_discount(current_price, original_price) ==
    IF ~Truthy(current_price) \/ ~Truthy(original_price) THEN None
    ELSE LET current == Float(KeepDigits(current_price))
             original == Float(KeepDigits(original_price))
         IN IF current.error \/ original.error THEN None
            ELSE IF original.num > 0
                 THEN IntText(IntOf(100 * (original.num * current.den
                                           - current.num * original.den),
                                    original.num * current.den)) \o <<"%">>
                 ELSE None

\* str.capitalize() on the category arguments the commands carry
Capitalize(s) ==
    CASE s = "home" -> "Home"
      [] s = "Home" -> "Home"
      [] s = "toys" -> "Toys"
      [] s = "Toys" -> "Toys"
      [] OTHER -> s

CatNames == {Capitalize(a) : a \in CatArgs}

(* ------------------------------ URLs ---------------------------------- *)

\* A URL is the sequence of its tokens after the scheme; the token "/" opens
\* the path, so urlparse(url).netloc is what stands before it.
UDirect == <<"www.", "amazon.in", "/", "dp/", "B0ASIN">>

UNoMarker == <<"www.", "amazon.in", "/", "b", "?", "node">>

UCampaign == <<"www.", "amazon.in", "/", "campaign">>

UShort == <<"amzn.to", "/", "abc">>

UEvil == <<"evil.com", "/", "dp/", "B0ASIN">>

UGp == <<"www.", "amazon.in", "/", "gp/product/", "B0ASIN">>

UQuery == <<"www.", "amazon.in", "/", "dp/", "B0ASIN", "?", "ref">>

UTagged == <<"www.", "amazon.in", "/", "dp/", "B0ASIN", "?", "tag=", "other-21">>

\* a product URL whose only parameter is ascsubtag
UAscSub == <<"www.", "amazon.in", "/", "dp/", "B0ASIN", "?", "ascsubtag=", "x">>

\* the URLs an admin sends with /link
LinkUrls == {UDirect, UGp, UQuery, UTagged, UAscSub, UNoMarker, UShort, UEvil}

\* those of them that the runs with a store use
CatalogUrls == {UDirect, UNoMarker}

\* the needles that are part of a longer token: <<needle, token>>
Substrings == {<<"tag=", "ascsubtag=">>}

\* `needle in url`, the substring test, for a needle that is one token or
\* part of one
InUrl(needle, url) ==
    \E i \in 1..Len(url) : url[i] = needle \/ <<needle, url[i]>> \in Substrings

RECURSIVE Netloc(_)
\* urlparse(url).netloc
Netloc(url) ==
    IF url = <<>> \/ Head(url) = "/" THEN <<>>
    ELSE <<Head(url)>> \o Netloc(Tail(url))

\* What the network answers to one expansion of a short link: the request
\* raises, or HEAD ends at `terminal`, and the page fetched for a mission or
\* campaign URL carries a canonical link, an og:url and a first anchor
\* with /dp/ (None: the page has none).
Nets ==
    [raises : {TRUE}, terminal : {None}, canonical : {None}, og : {None},
     anchor : {None}]
    \cup
    [raises : {FALSE}, terminal : {UDirect, UNoMarker}, canonical : {None},
     og : {None}, anchor : {None}]
    \cup
    {[raises |-> FALSE, terminal |-> UCampaign, canonical |-> t[1], og |-> t[2],
      anchor |-> t[3]] :
        t \in {<<None, None, None>>, <<UNoMarker, None, None>>,
                <<UDirect, None, None>>, <<UNoMarker, UDirect, None>>,
                <<None, None, UDirect>>}}

\* expand_shortened_url(url)
expand_shortened_url(url, net) ==
    IF net.raises THEN url
    ELSE IF InUrl("mission", net.terminal) \/ InUrl("campaign", net.terminal)
         THEN LET product_link ==
                      IF net.canonical # None /\ InUrl("dp/", net.canonical)
                      THEN net.canonical
                      ELSE IF net.og # None /\ InUrl("dp/", net.og)
                           THEN net.og
                           ELSE IF net.anchor # None /\ InUrl("dp/", net.anchor)
                                THEN net.anchor
                                ELSE None
              IN IF product_link # None THEN product_link ELSE net.terminal
         ELSE net.terminal

\* the URL that is_valid_amazon_url parses: the expansion of a short link
ExpandedForValidation(url, net) ==
    IF InUrl("amzn.to", url) THEN expand_shortened_url(url, net) ELSE url

\* is_valid_amazon_url(url)
is_valid_amazon_url(url, net) ==
    LET netloc == Netloc(ExpandedForValidation(url, net))
    IN /\ ("amazon.in" \in Range(netloc) \/ "amzn.to" \in Range(netloc))
       /\ (InUrl("dp/", url) \/ InUrl("gp/product/", url) \/ InUrl("amzn.to", url))

(* --------------------------- the extractor ---------------------------- *)

\* lines 155-162 of get_product_details: the URL an attempt fetches
AttemptUrl(url, net) ==
    LET expanded == IF InUrl("amzn.to", url) THEN expand_shortened_url(url, net) ELSE url
        separator == IF InUrl("?", expanded) THEN "&" ELSE "?"
    IN IF ~InUrl("tag=", expanded)
       THEN expanded \o <<separator, "tag=", "krunalweb20-21">>
       ELSE expanded

\* What one fetch returns: session.get raises, or a status code and the
\* text of the first element each selector chain finds (None: no element).
\* original_price, description and features are what the chains of lines
\* 216-230 and 268-301 find: the text of an element, the joined text of the
\* description elements, and the feature texts longer than 5 characters.
Fetches ==
    [raises : {TRUE}, status : {0}, title : {None}, price : {None},
     original_price : {None}, description : {None}, features : {<<>>}]
    \cup
    [raises : {FALSE}, status : {503}, title : {None}, price : {None},
     original_price : {None}, description : {None}, features : {<<>>}]
    \cup
    [raises : {FALSE}, status : {200}, title : {None, <<" ">>, <<"T">>},
     price : {None, <<" ">>, <<"N", "A">>, <<"4", "9">>,
              <<" ", "R", "1", ",", "4", "9", ".", "5", " ">>},
     original_price : {None, <<"R", "9", "8">>, <<"1", "4", "7">>, <<"N", "A">>, <<"0">>},
     description : {None, <<>>, <<"d">>},
     features : {<<>>, <<"feature">>}]

\* those of them that the runs with a store use
CatalogFetches ==
    {f \in Fetches : /\ f.price \in {None, <<" ">>, <<"4", "9">>}
                     /\ f.original_price = None
                     /\ f.description = None
                     /\ f.features = <<>>}

\* dict.get(key)
Get(d, key) == IF key \in DOMAIN d THEN d[key] ELSE None

\* {k: v for k, v in product_data.items() if v is not None}
FilterNone(d) == [k \in {x \in DOMAIN d : d[x] # None} |-> d[k]]

EssentialMissingTitleOnly(product_data) == ~Truthy(Get(product_data, "title"))

\* line 377: the test that raises "Missing essential product data"
EssentialMissing(product_data) ==
    ~Truthy(Get(product_data, "title")) \/ ~Truthy(Get(product_data, "price"))

\* the exceptions an attempt raises, by class
Raised == {"RequestException", "Exception"}

CaughtRequestsOnly(exc) == exc = "RequestException"

\* line 383: `except Exception` catches every class an attempt raises
Caught(exc) == exc \in {"RequestException", "Exception"}

\* One pass of the try block of get_product_details (lines 164-381) on the
\* URL of lines 155-162: the dictionary returned, or the exception raised.
\* The chains for rating, reviews and image_url are taken to find nothing,
\* which line 374 drops.
Attempt(url, fetch) ==
    IF fetch.raises THEN [exc |-> "RequestException", data |-> None]
    ELSE IF fetch.status # 200 THEN [exc |-> "Exception", data |-> None]
    ELSE LET title == IF fetch.title # None THEN Strip(fetch.title) ELSE None
             price0 == IF fetch.price # None THEN Strip(fetch.price) ELSE None
             price == IF Truthy(price0) THEN clean_price(price0) ELSE None
             original_price0 == IF fetch.original_price # None
                                THEN Strip(fetch.original_price) ELSE None
             original_price == IF Truthy(original_price0)
                               THEN clean_price(original_price0) ELSE None
             discount == IF Truthy(price) /\ Truthy(original_price)
                         THEN extract_discount(price, original_price) ELSE None
             product_data ==
                 FilterNone([title |-> title, price |-> price,
                             original_price |-> original_price, discount |-> discount,
                             rating |-> None, reviews |-> None,
                             description |-> fetch.description,
                             features |-> fetch.features,
                             image_url |-> None, link |-> url])
         IN IF ~Truthy(title) THEN [exc |-> "Exception", data |-> None]
            ELSE IF EssentialMissing(product_data)
                 THEN [exc |-> "Exception", data |-> None]
                 ELSE [exc |-> "none", data |-> product_data]

(* --------------------------- the store -------------------------------- *)

\* The _id the store assigns to the n-th inserted document, and its str():
\* a query {"_id": x} matches a document only when x is its ObjectId.
ObjectId(n) == <<"ObjectId", n>>

Str(oid) == <<"str", oid[2]>>

RECURSIVE SelectSeq2(_, _)
\* the documents of a collection whose category is not `name`, in order
SelectSeq2(docs, name) ==
    IF docs = <<>> THEN <<>>
    ELSE IF Head(docs).category = name
         THEN SelectSeq2(Tail(docs), name)
         ELSE <<Head(docs)>> \o SelectSeq2(Tail(docs), name)

RECURSIVE CountCategory(_, _)
\* the number of documents of a collection whose category is `name`
CountCategory(docs, name) ==
    IF docs = <<>> THEN 0
    ELSE (IF Head(docs).category = name THEN 1 ELSE 0)
         + CountCategory(Tail(docs), name)

\* the names of the documents of the categories collection
Names(cats) == {cats[i].name : i \in 1..Len(cats)}

\* the number of documents of the categories collection with that name
CountName(cats, name) == Cardinality({i \in 1..Len(cats) : cats[i].name = name})

\* the faults of one Database.add_category call: find_one raises, or
\* insert_one raises
AddCategoryFaults == {"none", "find_one", "insert_one"}

DbAddCategoryNoFind(cats, category_name, clock, fault) ==
    IF fault # "none" THEN [categories |-> cats, ok |-> FALSE]
    ELSE [categories |-> Append(cats, [name |-> category_name, created_at |-> clock]),
          ok |-> TRUE]

\* Database.add_category(category_name) on the categories collection:
\* the collection afterwards and the value returned.  A document is its
\* name and created_at (updated_at is written once, with the same value).
DbAddCategory(cats, category_name, clock, fault) ==
    IF fault = "find_one" THEN [categories |-> cats, ok |-> FALSE]
    ELSE IF category_name \in Names(cats) THEN [categories |-> cats, ok |-> FALSE]
    ELSE IF fault = "insert_one" THEN [categories |-> cats, ok |-> FALSE]
    ELSE [categories |-> Append(cats, [name |-> category_name, created_at |-> clock]),
          ok |-> TRUE]

DbEnsureCategoryExistsSet(cats, category_name, clock, raises) ==
    IF raises THEN [categories |-> cats, ok |-> FALSE]
    ELSE [categories |->
              IF category_name \in Names(cats)
              THEN [i \in 1..Len(cats) |->
                       IF cats[i].name = category_name
                       THEN [cats[i] EXCEPT !.created_at = clock] ELSE cats[i]]
              ELSE Append(cats, [name |-> category_name, created_at |-> clock]),
          ok |-> TRUE]

\* Database.ensure_category_exists(category_name): update_one with
\* $setOnInsert and upsert=True, which writes nothing to a document that
\* matches and inserts one when none does
DbEnsureCategoryExists(cats, category_name, clock, raises) ==
    IF raises THEN [categories |-> cats, ok |-> FALSE]
    ELSE [categories |->
              IF category_name \in Names(cats) THEN cats
              ELSE Append(cats, [name |-> category_name, created_at |-> clock]),
          ok |-> TRUE]

RECURSIVE DeleteName(_, _)
\* categories.delete_one({'name': name}): the collection without its first match
DeleteName(cats, name) ==
    IF cats = <<>> THEN <<>>
    ELSE IF Head(cats).name = name THEN Tail(cats)
         ELSE <<Head(cats)>> \o DeleteName(Tail(cats), name)

\* the faults of one Database.remove_category call: the statement that raises
RemoveCategoryFaults == {"none", "start_session", "delete_many", "delete_one", "commit"}

DbRemoveCategoryKeepProducts(prods, cats, category_name, fault) ==
    IF fault # "none"
    THEN [products |-> prods, categories |-> cats, ok |-> FALSE, deleted_count |-> 0]
    ELSE [products |-> prods,
          categories |-> DeleteName(cats, category_name),
          ok |-> category_name \in Names(cats),
          deleted_count |-> 0]

\* Database.remove_category(category_name): the two collections afterwards,
\* the value returned and delete_products_result.deleted_count.  An
\* exception inside the `with session.start_transaction()` block aborts the
\* transaction; leaving the block by `return` commits it, whichever value
\* is returned.
DbRemoveCategory(prods, cats, category_name, fault) ==
    IF fault # "none"
    THEN [products |-> prods, categories |-> cats, ok |-> FALSE, deleted_count |-> 0]
    ELSE [products |-> SelectSeq2(prods, category_name),
          categories |-> DeleteName(cats, category_name),
          ok |-> category_name \in Names(cats),
          deleted_count |-> CountCategory(prods, category_name)]

\* the faults of one Database.add_product call: which of its statements
\* raise (find_one of line 140, the add_category call, insert_one of line 149)
AddProductFaults ==
    [find_one : BOOLEAN, add_category : AddCategoryFaults, insert_one : BOOLEAN]

\* Database.add_product(product_data, category): the two collections
\* afterwards and the value returned (str of the new _id, or None).  The
\* fields scraped are kept together under `data`.
DbAddProduct(prods, cats, n, product_data, category, clock, faults) ==
    IF faults.find_one
    THEN [products |-> prods, categories |-> cats, id |-> None]
    ELSE LET cats2 == IF category \notin Names(cats)
                      THEN DbAddCategory(cats, category, clock, faults.add_category).categories
                      ELSE cats
             doc == [id |-> ObjectId(n), category |-> category, data |-> product_data,
                     created_at |-> clock, updated_at |-> clock]
         IN IF faults.insert_one
            THEN [products |-> prods, categories |-> cats2, id |-> None]
            ELSE [products |-> Append(prods, doc), categories |-> cats2,
                  id |-> Str(ObjectId(n))]

RECURSIVE DeleteOne(_, _)
\* delete_one({"_id": product_id}): the collection without its first match
DeleteOne(docs, product_id) ==
    IF docs = <<>> THEN <<>>
    ELSE IF Head(docs).id = product_id THEN Tail(docs)
         ELSE <<Head(docs)>> \o DeleteOne(Tail(docs), product_id)

\* Database.remove_product(product_id)
DbRemoveProduct(prods, product_id, raises) ==
    IF raises THEN [products |-> prods, ok |-> FALSE]
    ELSE [products |-> DeleteOne(prods, product_id),
          ok |-> Len(DeleteOne(prods, product_id)) < Len(prods)]

\* Database.get_all_categories(): the names, [] when the read raises
get_all_categories(cats, raises) == IF raises THEN {} ELSE Names(cats)

\* the position of the first product whose _id equals product_id, 0 when
\* there is none
FindProduct(prods, product_id) ==
    IF \E i \in 1..Len(prods) : prods[i].id = product_id
    THEN CHOOSE i \in 1..Len(prods) :
             /\ prods[i].id = product_id
             /\ \A j \in 1..(i - 1) : prods[j].id # product_id
    ELSE 0

\* Database.update_product(product_id, product_data): update_one with $set
\* of the fields passed and of last_updated; True when modified_count > 0,
\* that is when the document matched is not left as it was
DbUpdateProduct(prods, product_id, product_data, clock, raises) ==
    IF raises THEN [products |-> prods, ok |-> FALSE]
    ELSE LET i == FindProduct(prods, product_id)
         IN IF i = 0 THEN [products |-> prods, ok |-> FALSE]
            ELSE LET old == prods[i]
                     data == [k \in DOMAIN old.data \cup DOMAIN product_data |->
                                 IF k \in DOMAIN product_data
                                 THEN product_data[k] ELSE old.data[k]]
                     new == [k \in DOMAIN old \cup {"last_updated"} |->
                                IF k = "last_updated" THEN clock
                                ELSE IF k = "data" THEN data
                                ELSE old[k]]
                 IN [products |-> [prods EXCEPT ![i] = new], ok |-> new # old]

RECURSIVE get_products_by_category(_, _, _)
\* Database.get_products_by_category(category): the documents of that
\* category in collection order, [] on a PyMongoError
get_products_by_category(prods, category, raises) ==
    IF raises \/ prods = <<>> THEN <<>>
    ELSE (IF Head(prods).category = category THEN <<Head(prods)>> ELSE <<>>)
         \o get_products_by_category(Tail(prods), category, raises)

\* Database.get_all_products(): the documents, [] on a PyMongoError
get_all_products(prods, raises) == IF raises THEN <<>> ELSE prods

(* ----------------------------- the cache ------------------------------ *)

\* the dictionary a cached product is: the document with _id as a string
Cached(doc) == [doc EXCEPT !.id = Str(doc.id)]

RECURSIVE OrganizeKnownOnly(_, _)
OrganizeKnownOnly(mapping, all_products) ==
    IF all_products = <<>> THEN mapping
    ELSE LET product == Cached(Head(all_products))
             next == IF product.category \in DOMAIN mapping
                     THEN [mapping EXCEPT ![product.category] = Append(@, product)]
                     ELSE mapping
         IN OrganizeKnownOnly(next, Tail(all_products))

RECURSIVE Organize(_, _)
\* lines 52-60 of load_products_from_db: append each product to the list of
\* its category, creating the key when the category is not there
Organize(mapping, all_products) ==
    IF all_products = <<>> THEN mapping
    ELSE LET product == Cached(Head(all_products))
             category == product.category
             next == IF category \in DOMAIN mapping
                     THEN [mapping EXCEPT ![category] = Append(@, product)]
                     ELSE [c \in DOMAIN mapping \cup {category} |->
                              IF c = category THEN <<product>> ELSE mapping[c]]
         IN Organize(next, Tail(all_products))

load_products_from_dbKeepOld(old, categories, all_products, aborts) == old

\* load_products_from_db(): the value of PRODUCTS afterwards, from what the
\* two reads returned; `aborts`: get_all_products raised an exception that
\* is no PyMongoError, after PRODUCTS was set to the empty lists
load_products_from_db(old, categories, all_products, aborts) ==
    LET empty == [c \in categories |-> <<>>]
    IN IF aborts THEN empty ELSE Organize(empty, all_products)

(* ------------------------------ users --------------------------------- *)

\* user.username as Telegram gives it (None: the account has none)
UserNames == {None, <<"k">>}

\* the position of the first document of the users collection whose
\* telegram_id is the one asked for, 0 when there is none
FindUser(us, telegram_id) ==
    IF \E i \in 1..Len(us) : us[i].telegram_id = telegram_id
    THEN CHOOSE i \in 1..Len(us) :
             /\ us[i].telegram_id = telegram_id
             /\ \A j \in 1..(i - 1) : us[j].telegram_id # telegram_id
    ELSE 0

DbAddUserInsert(us, telegram_id, username, joined_date, clock, raises) ==
    [users |-> Append(us, [telegram_id |-> telegram_id, username |-> username,
                           joined_date |-> joined_date, last_active |-> clock]),
     ok |-> TRUE]

\* Database.add_user(telegram_id, username, joined_date): update_one with
\* $set of the three fields and upsert=True; `clock` is datetime.now().
\* The document matched is updated, and one is inserted when none matches.
DbAddUser(us, telegram_id, username, joined_date, clock, raises) ==
    IF raises THEN [users |-> us, ok |-> FALSE]
    ELSE LET i == FindUser(us, telegram_id)
             doc == [telegram_id |-> telegram_id, username |-> username,
                     joined_date |-> joined_date, last_active |-> clock]
         IN [users |-> IF i = 0 THEN Append(us, doc) ELSE [us EXCEPT ![i] = doc],
             ok |-> TRUE]

DbUpdateUserActivityUpsert(us, telegram_id, clock, raises) ==
    IF raises THEN [users |-> us, ok |-> FALSE]
    ELSE LET i == FindUser(us, telegram_id)
         IN [users |-> IF i = 0
                       THEN Append(us, [telegram_id |-> telegram_id, username |-> None,
                                        joined_date |-> clock, last_active |-> clock])
                       ELSE [us EXCEPT ![i].last_active = clock],
             ok |-> TRUE]

\* Database.update_user_activity(telegram_id): update_one with $set of
\* last_active and no upsert
DbUpdateUserActivity(us, telegram_id, clock, raises) ==
    IF raises THEN [users |-> us, ok |-> FALSE]
    ELSE LET i == FindUser(us, telegram_id)
         IN [users |-> IF i = 0 THEN us ELSE [us EXCEPT ![i].last_active = clock],
             ok |-> TRUE]

(* ------------------------------ state --------------------------------- *)

VARIABLES
    products,      \* the products collection, in insertion order
    categories,    \* the categories collection, in insertion order
    users,         \* the users collection, in insertion order
    PRODUCTS,      \* the catalog cache of main.py
    nextId,        \* the number of the next ObjectId
    now,           \* datetime.now()
    pc,            \* the stage of the /link handler in flight
    url,           \* its local url (get_product_details reassigns it)
    category,      \* its context.args[1], NoArg when there is none
    valid,         \* what is_valid_amazon_url returned to it
    attempt,       \* the loop variable of get_product_details
    tries,         \* the outcome of each attempt made, TRUE for a return
    raised,        \* an exception left get_product_details
    product_data,  \* what get_product_details returned
    product_id,    \* what db.add_product returned
    pending,       \* a /category_remove handler awaits its reply before reloading
    conn,          \* the connection db.client, db.db and the three collection
                   \* handles each belong to, and the number of clients made
    ret            \* the last call made and what it returned

store == <<products, categories>>

link == <<pc, url, category, valid, attempt, tries, raised, product_data, product_id>>

vars == <<products, categories, users, PRODUCTS, nextId, now, pc, url, category,
          valid, attempt, tries, raised, product_data, product_id, pending, conn,
          ret>>

\* the record kept of a call: its name, its argument, whether it succeeded,
\* a count and one more value.  /category_remove sets confirm when the
\* command carried the confirm argument, and num_products to the number its
\* reply names; the four admin commands set user to the id of the sender;
\* get_product_details sets wait to the seconds of its backoff sleep; a
\* step that ran load_products_from_db sets cats_raise and prods_fault to the
\* faults of its two reads (prods_fault is "" when no reload ran); a run of
\* ping_service that reached db.ping() sets ping to the fault of that call,
\* reconnects to the number of db.reconnect() calls it made and reconnected
\* when one of them returned.
Ret(op, arg, ok, n, x) ==
    [op |-> op, arg |-> arg, ok |-> ok, n |-> n, x |-> x,
     confirm |-> FALSE, num_products |-> 0, user |-> 0, wait |-> 0,
     cats_raise |-> FALSE, prods_fault |-> "", ping |-> "", reconnects |-> 0,
     reconnected |-> FALSE]

\* the record of a step that ran load_products_from_db
Loaded(r, cats_raise, prods_fault) ==
    [r EXCEPT !.cats_raise = cats_raise, !.prods_fault = prods_fault]

Init ==
    /\ products = <<>>
    /\ categories = <<>>
    /\ users = <<>>
    /\ PRODUCTS = <<>>
    /\ nextId = 1
    /\ now = 0
    /\ pc = "idle"
    /\ url = None
    /\ category = NoArg
    /\ valid = FALSE
    /\ attempt = 0
    /\ tries = <<>>
    /\ raised = FALSE
    /\ product_data = None
    /\ product_id = None
    /\ pending = FALSE
    /\ conn = [client |-> 1, db |-> 1, users |-> 1, products |-> 1, categories |-> 1,
               made |-> 1]
    /\ ret = Ret("start", "", TRUE, 0, None)

\* the record of a call made by the handler of a command that user_id sent
By(r, user_id) == [r EXCEPT !.user = user_id]

is_adminAnyone(user_id) == TRUE

\* is_admin(user_id)
is_admin(user_id) == user_id \in ADMIN_IDS

\* the event loop is free: the /link handler is not running, or it awaits
\* the reply of line 210
AtAwait == pc \in {"idle", "validated"}

\* the locals of a /link handler that has returned
LinkReturns ==
    /\ pc' = "idle"
    /\ url' = None
    /\ category' = NoArg
    /\ valid' = FALSE
    /\ attempt' = 0
    /\ tries' = <<>>
    /\ product_data' = None
    /\ product_id' = None

\* one run of load_products_from_db on the store as it is: cats_raise and
\* prods_raise are PyMongoErrors inside the two reads, aborts an exception
\* of another class out of get_all_products
Reload(cats_raise, prods_fault) ==
    PRODUCTS' = load_products_from_db(PRODUCTS,
                                      get_all_categories(categories, cats_raise),
                                      get_all_products(products, prods_fault = "PyMongoError"),
                                      prods_fault = "other")

ReadFaults == {"none", "PyMongoError", "other"}

\* a handler that only sent a reply
Reply(why) == Ret("reply", why, FALSE, 0, None)

(* --------------------------- /link handler ---------------------------- *)

AfterValidationUngated(v) == "validated"

\* lines 206-210 of add_product: an invalid URL ends the handler
AfterValidation(v) == IF v THEN "validated" ELSE "idle"

\* /link up to its first await (main.py 195-210)
LinkStart(user_id, arg, net) ==
    /\ pc = "idle"
    /\ nextId <= MaxProducts
    /\ UNCHANGED <<products, categories, users, PRODUCTS, nextId, now, conn, pending>>
    /\ UNCHANGED <<category, attempt, tries, raised, product_data, product_id>>
    /\ IF ~is_admin(user_id)
       THEN /\ ret' = By(Reply("not_admin"), user_id)
            /\ UNCHANGED <<pc, url, valid>>
       ELSE IF arg = None
       THEN /\ ret' = By(Reply(""), user_id)
            /\ UNCHANGED <<pc, url, valid>>
       ELSE LET v == is_valid_amazon_url(arg, net)
            IN /\ ret' = By(Ret("is_valid_amazon_url", arg, v, 0,
                                ExpandedForValidation(arg, net)), user_id)
               /\ pc' = AfterValidation(v)
               /\ IF pc' = "idle"
                  THEN UNCHANGED <<url, valid>>
                  ELSE /\ url' = arg
                       /\ valid' = v

\* the await of line 210 returns, or raises and ends the handler
LinkFetching(replied) ==
    /\ pc = "validated"
    /\ UNCHANGED <<products, categories, users, PRODUCTS, nextId, now, conn, pending, raised>>
    /\ IF replied
       THEN /\ pc' = "extracting"
            /\ UNCHANGED <<url, category, valid, attempt, tries, product_data, product_id>>
            /\ ret' = Ret("get_product_details", "called", TRUE, 0, None)
       ELSE /\ LinkReturns
            /\ ret' = Reply("")

\* the draws of random.uniform, in thirds of the interval
Draws == 0..3

\* random.uniform(a, b) for the draw u
Uniform(a, b, u) == a + ((b - a) * u) \div 3

BackoffFlat(k, u) ==
    IF k < max_retries - 1 THEN Uniform(3, 6, u) ELSE 0

\* lines 388-389 of get_product_details: the seconds slept after the failed
\* attempt numbered k (the loop variable, from 0), 0 when there is no sleep
Backoff(k, u) ==
    IF k < max_retries - 1
    THEN Uniform(3 * (k + 1), 6 * (k + 1), u)
    ELSE 0

\* one iteration of the loop of get_product_details (scraper.py 152-389);
\* ret.n is the number of the attempt (from 1), ret.wait the backoff slept;
\* u is the draw of that sleep, 0 when the last attempt makes none
LinkAttempt(net, fetch, u) ==
    /\ pc = "extracting"
    /\ attempt >= max_retries - 1 => u = 0
    /\ UNCHANGED <<products, categories, users, PRODUCTS, nextId, now, conn, pending>>
    /\ UNCHANGED <<category, valid, product_id>>
    /\ LET fetched == AttemptUrl(url, net)
           r == Attempt(fetched, fetch)
       IN /\ url' = fetched
          /\ ret' = [Ret("attempt", r.exc, r.exc = "none", Len(tries) + 1, None) EXCEPT
                         !.wait = IF r.exc # "none" /\ Caught(r.exc)
                                  THEN Backoff(attempt, u) ELSE 0]
          /\ tries' = Append(tries, r.exc = "none")
          /\ IF r.exc = "none"
             THEN /\ product_data' = r.data
                  /\ pc' = "extracted"
                  /\ UNCHANGED <<attempt, raised>>
             ELSE IF ~Caught(r.exc)
             THEN /\ raised' = TRUE
                  /\ pc' = "extracted"
                  /\ UNCHANGED <<attempt, product_data>>
             ELSE /\ attempt' = attempt + 1
                  /\ pc' = IF attempt + 1 < max_retries THEN "extracting" ELSE "extracted"
                  /\ UNCHANGED <<raised, product_data>>

\* line 214 of add_product: no product data ends the handler
StoreAllowed(data) == Truthy(data)

\* /link from the return of get_product_details to db.add_product
\* (main.py 214-239).  cat is context.args[1], which the handler reads
\* here for the first time.
LinkStore(cat) ==
    /\ pc = "extracted"
    /\ UNCHANGED <<users, PRODUCTS, now, conn, pending>>
    /\ IF raised
       THEN /\ LinkReturns
            /\ raised' = FALSE
            /\ ret' = Reply("")
            /\ UNCHANGED <<products, categories, nextId>>
       ELSE IF ~StoreAllowed(product_data)
       THEN /\ LinkReturns
            /\ ret' = Ret("get_product_details", "", FALSE, Len(tries), None)
            /\ UNCHANGED <<products, categories, nextId, raised>>
       ELSE IF cat = NoArg
       THEN /\ LinkReturns
            /\ ret' = Ret("get_product_details", "", TRUE, Len(tries), None)
            /\ UNCHANGED <<products, categories, nextId, raised>>
       ELSE \E faults \in AddProductFaults :
            LET r == DbAddProduct(products, categories, nextId, product_data,
                                  Capitalize(cat), now, faults)
            IN /\ products' = r.products
               /\ categories' = r.categories
               /\ nextId' = IF r.id = None THEN nextId ELSE nextId + 1
               /\ ret' = Ret("add_product", Capitalize(cat), r.id # None, 0, r.id)
               /\ UNCHANGED raised
               /\ IF r.id = None
                  THEN LinkReturns
                  ELSE /\ pc' = "stored"
                       /\ product_id' = r.id
                       /\ category' = cat
                       /\ UNCHANGED <<url, valid, attempt, tries, product_data>>

\* /link after db.add_product returned an id: the reload of line 242
LinkReload(cats_raise, prods_fault) ==
    /\ pc = "stored"
    /\ UNCHANGED <<products, categories, users, nextId, now, conn, pending, raised>>
    /\ Reload(cats_raise, prods_fault)
    /\ ret' = Loaded(Ret("load_products_from_db", Capitalize(category),
                         ~cats_raise /\ prods_fault = "none", 0, product_id),
                     cats_raise, prods_fault)
    /\ LinkReturns

(* -------------------------- other handlers ---------------------------- *)

\* /remove <category> <number> (main.py 289-313); ret.x is the _id passed to
\* Database.remove_product, ret.n counts the PyMongoErrors of delete_one
RemoveProduct(user_id, cat, number) ==
    /\ AtAwait
    /\ UNCHANGED <<categories, users, nextId, now, conn, pending>>
    /\ UNCHANGED link
    /\ LET c == Capitalize(cat)
           index == number - 1
       IN IF ~is_admin(user_id)
          THEN /\ ret' = By(Reply("not_admin"), user_id)
               /\ UNCHANGED <<products, PRODUCTS>>
          ELSE IF ~(c \in DOMAIN PRODUCTS /\ 0 <= index /\ index < Len(PRODUCTS[c]))
          THEN /\ ret' = By(Reply(""), user_id)
               /\ UNCHANGED <<products, PRODUCTS>>
          ELSE \E raises \in BOOLEAN :
               LET product == PRODUCTS[c][index + 1]
                   r == DbRemoveProduct(products, product.id, raises)
                   called == By(Ret("remove_product", c, r.ok,
                                    IF raises THEN 1 ELSE 0, product.id), user_id)
               IN /\ products' = r.products
                  /\ IF r.ok
                     THEN \E cats_raise \in BOOLEAN, prods_fault \in ReadFaults :
                          /\ PRODUCTS' = load_products_from_db(
                                 PRODUCTS,
                                 get_all_categories(categories, cats_raise),
                                 get_all_products(r.products, prods_fault = "PyMongoError"),
                                 prods_fault = "other")
                          /\ ret' = Loaded(called, cats_raise, prods_fault)
                     ELSE /\ UNCHANGED PRODUCTS
                          /\ ret' = called

\* /category_add <category> (main.py 784-811)
CategoryAdd(user_id, cat) ==
    /\ AtAwait
    /\ UNCHANGED <<products, users, nextId, now, conn, pending>>
    /\ UNCHANGED link
    /\ LET c == Capitalize(cat)
       IN IF ~is_admin(user_id)
          THEN /\ ret' = By(Reply("not_admin"), user_id)
               /\ UNCHANGED <<categories, PRODUCTS>>
          ELSE IF c \in DOMAIN PRODUCTS
          THEN /\ ret' = By(Reply(""), user_id)
               /\ UNCHANGED <<categories, PRODUCTS>>
          ELSE \E fault \in AddCategoryFaults :
               LET r == DbAddCategory(categories, c, now, fault)
               IN /\ categories' = r.categories
                  /\ ret' = By(Ret("add_category", c, r.ok,
                                   IF fault = "none" THEN 0 ELSE 1, None), user_id)
                  /\ IF r.ok
                     THEN PRODUCTS' = [k \in DOMAIN PRODUCTS \cup {c} |->
                                          IF k = c THEN <<>> ELSE PRODUCTS[k]]
                     ELSE UNCHANGED PRODUCTS

\* /category_remove <category> [confirm] up to the await of its reply
\* (main.py 813-854)
CategoryRemove(user_id, cat, confirm) ==
    /\ AtAwait
    /\ ~pending
    /\ UNCHANGED <<users, nextId, now, conn>>
    /\ UNCHANGED link
    /\ LET c == Capitalize(cat)
       IN IF ~is_admin(user_id)
          THEN /\ ret' = By(Reply("not_admin"), user_id)
               /\ UNCHANGED <<products, categories, PRODUCTS, pending>>
          ELSE IF c \notin DOMAIN PRODUCTS
          THEN /\ ret' = By(Reply(""), user_id)
               /\ UNCHANGED <<products, categories, PRODUCTS, pending>>
          ELSE IF Len(PRODUCTS[c]) > 0 /\ ~confirm
          THEN /\ ret' = By(Reply("confirm?"), user_id)
               /\ UNCHANGED <<products, categories, PRODUCTS, pending>>
          ELSE \E fault \in RemoveCategoryFaults :
               LET r == DbRemoveCategory(products, categories, c, fault)
               IN /\ products' = r.products
                  /\ categories' = r.categories
                  /\ ret' = [Ret("remove_category", c, r.ok, r.deleted_count, None)
                                EXCEPT !.confirm = confirm,
                                       !.num_products = Len(PRODUCTS[c]),
                                       !.user = user_id]
                  /\ pending' = r.ok
                  /\ IF r.ok
                     THEN PRODUCTS' = [k \in DOMAIN PRODUCTS \ {c} |-> PRODUCTS[k]]
                     ELSE UNCHANGED PRODUCTS

\* /category_remove after the await of its reply: the reload of line 857,
\* or nothing when sending the reply raised
CategoryRemoveReload(replied, cats_raise, prods_fault) ==
    /\ AtAwait
    /\ pending
    /\ pending' = FALSE
    /\ UNCHANGED <<products, categories, users, nextId, now, conn>>
    /\ UNCHANGED link
    /\ IF replied
       THEN /\ Reload(cats_raise, prods_fault)
            /\ ret' = Loaded(Ret("load_products_from_db", "",
                                 ~cats_raise /\ prods_fault = "none", 0, None),
                             cats_raise, prods_fault)
       ELSE /\ UNCHANGED PRODUCTS
            /\ ret' = Reply("")

\* the "more_<category>" button of handle_button (main.py 567-575):
\* products = PRODUCTS[category]; random.shuffle(products) shuffles the
\* list the cache holds
MoreButton(cat, order) ==
    /\ AtAwait
    /\ UNCHANGED <<products, categories, users, nextId, now, conn, pending>>
    /\ UNCHANGED link
    /\ LET c == Capitalize(cat)
       IN IF c \in DOMAIN PRODUCTS
          THEN /\ order \in Permutations(1..Len(PRODUCTS[c]))
               /\ PRODUCTS' = [PRODUCTS EXCEPT ![c] =
                                  [i \in 1..Len(PRODUCTS[c]) |-> PRODUCTS[c][order[i]]]]
               /\ ret' = Ret("more_", c, TRUE, 0, None)
          ELSE /\ order = <<>>
               /\ UNCHANGED PRODUCTS
               /\ ret' = Ret("more_", c, FALSE, 0, None)

\* send_deals (main.py 371-404) and inline_query (main.py 603-615): every
\* cached product is assigned the key of its list as its category
SendDeals ==
    /\ AtAwait
    /\ UNCHANGED <<products, categories, users, nextId, now, conn, pending>>
    /\ UNCHANGED link
    /\ PRODUCTS' = [c \in DOMAIN PRODUCTS |->
                       [i \in 1..Len(PRODUCTS[c]) |->
                           [PRODUCTS[c][i] EXCEPT !.category = c]]]
    /\ ret' = Ret("send_deals", "", TRUE, 0, None)

\* the values os.getenv('PING_CHAT_ID') can have: unset, "0", "1", or text
\* that is no number
PingChatEnv == {None, <<"0">>, <<"1">>, <<"x">>}

\* line 709: int(os.getenv('PING_CHAT_ID', ADMIN_IDS[0] if ADMIN_IDS else None));
\* error: int() raised
PingChatId(env) ==
    IF env = None
    THEN IF ADMIN_IDS # {}
         THEN [error |-> FALSE, value |-> CHOOSE a \in ADMIN_IDS : TRUE]
         ELSE [error |-> TRUE, value |-> 0]
    ELSE IF env # <<>> /\ \A i \in 1..Len(env) : env[i] \in Digits
         THEN [error |-> FALSE, value |-> DigitsValue(env)]
         ELSE [error |-> TRUE, value |-> 0]

\* the faults of db.ping(): none, a PyMongoError (logged and raised again),
\* an exception of another class
PingFaults == {"none", "PyMongoError", "other"}

\* the faults of db.reconnect(): none, MongoClient(...) raises, the ping of
\* line 242 raises
ReconnectFaults == {"none", "MongoClient", "ping"}

DbReconnectKeepHandles(c, fault) ==
    IF fault = "MongoClient"
    THEN [conn |-> [c EXCEPT !.made = @ + 1], ok |-> FALSE]
    ELSE [conn |-> [c EXCEPT !.client = c.made + 1, !.db = c.made + 1,
                             !.made = @ + 1],
          ok |-> fault = "none"]

\* Database.reconnect(): the connection afterwards and whether it returned
\* (it raises otherwise).  The client and the database are replaced before
\* the ping of line 242, the three collection handles after it.
DbReconnect(c, fault) ==
    IF fault = "MongoClient"
    THEN [conn |-> [c EXCEPT !.made = @ + 1], ok |-> FALSE]
    ELSE LET n == c.made + 1
         IN IF fault = "ping"
            THEN [conn |-> [c EXCEPT !.client = n, !.db = n, !.made = n], ok |-> FALSE]
            ELSE [conn |-> [client |-> n, db |-> n, users |-> n, products |-> n,
                            categories |-> n, made |-> n],
                  ok |-> TRUE]

\* `except Exception` of lines 719 and 726: the fault is caught there
ExceptException(fault) == fault \in {"PyMongoError", "other"}

\* one run of the periodic ping_service (main.py 705-762).  env is the value
\* of PING_CHAT_ID, ping_fault and reconnect_fault the faults of db.ping()
\* and db.reconnect(), sent whether the run got from there to the return of
\* send_message; the reload of line 758 is reached when it did.  No other
\* handler reads or writes the connection, so the part before the await of
\* line 750 is taken together with the part after it.  ret.n is 1 when an
\* exception of db.ping() or db.reconnect() left the try statements of lines
\* 716-727, which ends the run in the handler of line 761.
PingService(env, ping_fault, reconnect_fault, sent, cats_raise, prods_fault) ==
    /\ AtAwait
    /\ UNCHANGED <<products, categories, users, nextId, now, pending>>
    /\ UNCHANGED link
    /\ LET ping_chat_id == PingChatId(env)
       IN IF ping_chat_id.error \/ ping_chat_id.value = 0
          THEN /\ UNCHANGED <<PRODUCTS, conn>>
               /\ ret' = Ret("ping_service", "", FALSE, 0, None)
          ELSE LET r == DbReconnect(conn, reconnect_fault)
                   escaped ==
                       \/ ping_fault # "none" /\ ~ExceptException(ping_fault)
                       \/ ping_fault # "none" /\ ~r.ok /\ ~ExceptException("PyMongoError")
                   run == [Ret("ping_service", "", FALSE, IF escaped THEN 1 ELSE 0, None) EXCEPT
                              !.ping = ping_fault,
                              !.reconnects = IF ping_fault = "none" THEN 0 ELSE 1,
                              !.reconnected = ping_fault # "none" /\ r.ok]
               IN /\ ping_fault # "none" => conn.made < MaxConnections
                  /\ escaped => ~sent
                  /\ conn' = IF ping_fault = "none" THEN conn ELSE r.conn
                  /\ IF sent
                     THEN /\ Reload(cats_raise, prods_fault)
                          /\ ret' = Loaded([run EXCEPT
                                               !.op = "load_products_from_db",
                                               !.arg = "ping_service",
                                               !.ok = ~cats_raise /\ prods_fault = "none"],
                                           cats_raise, prods_fault)
                     ELSE /\ UNCHANGED PRODUCTS
                          /\ ret' = run

(* --------------------------- user handlers ---------------------------- *)

\* /start (main.py 176-186); ret.x is the joined_date stored before the call
Start(user_id, username, raises) ==
    /\ LET name == IF Truthy(username) THEN username ELSE <<"Unknown">>
           r == DbAddUser(users, user_id, name, now, now, raises)
       IN /\ users' = r.users
          /\ ret' = Ret("add_user", user_id, r.ok, 0,
                        IF FindUser(users, user_id) # 0
                        THEN users[FindUser(users, user_id)].joined_date ELSE -1)
    /\ UNCHANGED <<products, categories, PRODUCTS, nextId, now, conn, pending>>
    /\ UNCHANGED link

\* Database.update_user_activity called for a user; ret.n counts the
\* PyMongoErrors update_one raised
Touch(user_id, raises) ==
    /\ LET r == DbUpdateUserActivity(users, user_id, now, raises)
       IN /\ users' = r.users
          /\ ret' = Ret("update_user_activity", user_id, r.ok,
                        IF raises THEN 1 ELSE 0, None)
    /\ UNCHANGED <<products, categories, PRODUCTS, nextId, now, conn, pending>>
    /\ UNCHANGED link

\* the wall clock advances
Tick ==
    /\ now < MaxClock
    /\ now' = now + 1
    /\ ret' = Ret("tick", "", TRUE, 0, None)
    /\ UNCHANGED <<products, categories, users, conn, PRODUCTS, nextId, pending>>
    /\ UNCHANGED link

(* ------------------------ calls of the store -------------------------- *)

\* the product data the direct calls of add_product carry
StoreData ==
    {[title |-> <<"T">>, price |-> <<"Rs", "4", "9">>, features |-> <<>>, link |-> UDirect]}

\* Database.add_category(name); ret.n is 1 when a fault was injected
CallAddCategory(name, fault) ==
    /\ LET r == DbAddCategory(categories, name, now, fault)
       IN /\ categories' = r.categories
          /\ ret' = Ret("add_category", name, r.ok, IF fault = "none" THEN 0 ELSE 1, None)
    /\ UNCHANGED <<products, users, PRODUCTS, nextId, now, conn, pending>>
    /\ UNCHANGED link

\* Database.ensure_category_exists(name); ret.n is 1 when update_one raised
CallEnsureCategoryExists(name, raises) ==
    /\ LET r == DbEnsureCategoryExists(categories, name, now, raises)
       IN /\ categories' = r.categories
          /\ ret' = Ret("ensure_category_exists", name, r.ok, IF raises THEN 1 ELSE 0, None)
    /\ UNCHANGED <<products, users, PRODUCTS, nextId, now, conn, pending>>
    /\ UNCHANGED link

\* Database.add_product(data, name)
CallAddProduct(data, name, faults) ==
    /\ nextId <= MaxProducts
    /\ LET r == DbAddProduct(products, categories, nextId, data, name, now, faults)
       IN /\ products' = r.products
          /\ categories' = r.categories
          /\ nextId' = IF r.id = None THEN nextId ELSE nextId + 1
          /\ ret' = Ret("add_product", name, r.id # None, 0, r.id)
    /\ UNCHANGED <<users, PRODUCTS, now, conn, pending>>
    /\ UNCHANGED link

\* the fields the direct calls of update_product carry
StoreUpdates == {[price |-> <<"Rs", "5">>]}

\* the ids they name: an _id of the store, or the string the cache holds
StoreIds == {ObjectId(n) : n \in 1..MaxProducts} \cup {Str(ObjectId(n)) : n \in 1..MaxProducts}

\* Database.update_product(id, fields); ret.x is the fields, ret.n
\* is 1 when update_one raised
CallUpdateProduct(id, fields, raises) ==
    /\ LET r == DbUpdateProduct(products, id, fields, now, raises)
       IN /\ products' = r.products
          /\ ret' = Ret("update_product", id, r.ok, IF raises THEN 1 ELSE 0, fields)
    /\ UNCHANGED <<categories, users, PRODUCTS, nextId, now, conn, pending>>
    /\ UNCHANGED link

(* -------------------------- specifications ---------------------------- *)

\* the catalog URLs are no short links, so no request expands them: one
\* answer of the network and one draw of the backoff stand for all
CatalogNets == {net \in Nets : net.raises}

CatalogDraws == {0}

\* the orders a shuffle of a cached list can pick
Orders == UNION {Permutations(1..n) : n \in 0..MaxProducts}

\* the catalog: the store's products and categories, the cache, and /link
\* on direct URLs
Next ==
    \/ \E u \in UserIds, a \in CatalogUrls \cup {None}, net \in CatalogNets :
          LinkStart(u, a, net)
    \/ \E replied \in BOOLEAN : LinkFetching(replied)
    \/ \E net \in CatalogNets, fetch \in CatalogFetches, u \in CatalogDraws :
          LinkAttempt(net, fetch, u)
    \/ \E c \in CatArgs \cup {NoArg} : LinkStore(c)
    \/ \E cr \in BOOLEAN, pf \in ReadFaults : LinkReload(cr, pf)
    \/ \E u \in UserIds, c \in CatArgs, n \in 1..MaxProducts : RemoveProduct(u, c, n)
    \/ \E u \in UserIds, c \in CatArgs : CategoryAdd(u, c)
    \/ \E u \in UserIds, c \in CatArgs, confirm \in BOOLEAN : CategoryRemove(u, c, confirm)
    \/ \E replied \in BOOLEAN, cr \in BOOLEAN, pf \in ReadFaults :
          CategoryRemoveReload(replied, cr, pf)
    \/ \E env \in PingChatEnv, sent \in BOOLEAN, cr \in BOOLEAN, pf \in ReadFaults :
          PingService(env, "none", "none", sent, cr, pf)
    \/ \E c \in CatArgs, order \in Orders : MoreButton(c, order)
    \/ SendDeals

Spec == Init /\ [][Next]_vars

\* the resolver and the extractor: /link commands that name no category,
\* on every URL and every page
NextScraper ==
    \/ \E u \in UserIds, a \in LinkUrls \cup {None}, net \in Nets : LinkStart(u, a, net)
    \/ \E replied \in BOOLEAN : LinkFetching(replied)
    \/ \E net \in Nets, fetch \in Fetches, u \in Draws : LinkAttempt(net, fetch, u)
    \/ LinkStore(NoArg)

SpecScraper == Init /\ [][NextScraper]_vars

\* the users collection
NextUsers ==
    \/ \E u \in UserIds, name \in UserNames, raises \in BOOLEAN : Start(u, name, raises)
    \/ \E u \in UserIds, raises \in BOOLEAN : Touch(u, raises)
    \/ Tick

SpecUsers == Init /\ [][NextUsers]_vars

\* the store under direct calls of the Database methods
NextStore ==
    \/ \E name \in CatNames, fault \in AddCategoryFaults : CallAddCategory(name, fault)
    \/ \E name \in CatNames, raises \in BOOLEAN : CallEnsureCategoryExists(name, raises)
    \/ \E d \in StoreData, name \in CatNames, faults \in AddProductFaults :
          CallAddProduct(d, name, faults)
    \/ Tick

SpecStore == Init /\ [][NextStore]_vars

\* the products of the store under direct calls of add_product and
\* update_product
NextProducts ==
    \/ \E d \in StoreData, faults \in AddProductFaults : CallAddProduct(d, "Home", faults)
    \/ \E id \in StoreIds, fields \in StoreUpdates, raises \in BOOLEAN :
          CallUpdateProduct(id, fields, raises)
    \/ Tick

SpecProducts == Init /\ [][NextProducts]_vars

\* the periodic task with the faults of the connection, next to the
\* commands on categories
NextPing ==
    \/ \E env \in PingChatEnv, pg \in PingFaults, rc \in ReconnectFaults,
          sent \in BOOLEAN, cr \in BOOLEAN, pf \in ReadFaults :
          PingService(env, pg, rc, sent, cr, pf)
    \/ \E u \in UserIds, c \in CatArgs : CategoryAdd(u, c)
    \/ \E u \in UserIds, c \in CatArgs, confirm \in BOOLEAN : CategoryRemove(u, c, confirm)
    \/ \E replied \in BOOLEAN, cr \in BOOLEAN, pf \in ReadFaults :
          CategoryRemoveReload(replied, cr, pf)

SpecPing == Init /\ [][NextPing]_vars

(* ------------------------------ claims -------------------------------- *)

\* the number of entries of the cache list of category c whose _id is id
InCache(c, id) ==
    IF c \in DOMAIN PRODUCTS
    THEN Cardinality({i \in 1..Len(PRODUCTS[c]) : PRODUCTS[c][i].id = id})
    ELSE 0

\* C1: Database.remove_category(name) is all-or-nothing: either it reports
\* success and the category and every product of it are gone, or it reports
\* failure and neither collection has changed.
C1_AllOrNothing ==
    [][ret'.op = "remove_category" =>
          \/ /\ ret'.ok
             /\ ret'.arg \notin Names(categories')
             /\ CountCategory(products', ret'.arg) = 0
          \/ /\ ~ret'.ok
             /\ products' = products
             /\ categories' = categories]_vars

\* C2: after Database.remove_category(name) reports success, no product of
\* category name and no category name are left, and the products of every
\* other category are what they were.
C2_CascadeOnSuccess ==
    [][(ret'.op = "remove_category" /\ ret'.ok) =>
          /\ ret'.arg \notin Names(categories')
          /\ CountCategory(products', ret'.arg) = 0
          /\ products' = SelectSeq2(products, ret'.arg)]_vars

\* a category with a product was removed and a product of another stays
C2_Witness ==
    /\ ret.op = "remove_category"
    /\ ret.ok
    /\ ret.n >= 1
    /\ Len(products) >= 1

\* C3: every persisted product has a non-empty title and a non-empty price.
C3_TitleAndPrice ==
    \A i \in 1..Len(products) :
        /\ Truthy(Get(products[i].data, "title"))
        /\ Truthy(Get(products[i].data, "price"))

\* a product was persisted by a /link whose first attempt had failed
C3_Witness ==
    /\ pc = "stored"
    /\ Len(products) >= 1
    /\ Len(tries) >= 2

\* C4: the category of every persisted product is a category of the
\* categories collection.
C4_CategoryExists ==
    \A i \in 1..Len(products) : products[i].category \in Names(categories)

C6_RetryBound ==
    /\ ~raised
    /\ Len(tries) <= max_retries
    /\ \A i \in 1..Len(tries) : tries[i] => i = Len(tries)
    /\ pc = "extracting" => \A i \in 1..Len(tries) : ~tries[i]
    /\ pc = "extracted" =>
           IF product_data = None
           THEN tries = [i \in 1..max_retries |-> FALSE]
           ELSE tries[Len(tries)]

\* get_product_details returned None
C6_Witness ==
    /\ pc = "extracted"
    /\ product_data = None
    /\ Len(tries) = max_retries

\* C7: in /link, extraction starts only after the URL was found valid,
\* db.add_product is called only with product data, the reload runs only
\* after db.add_product returned an id, and an invalid URL or a failed
\* extraction writes nothing to the store.
C7_StagesGated ==
    [][/\ pc' \in {"validated", "extracting", "extracted", "stored"} => valid'
       /\ ret'.op = "add_product" => (valid /\ Truthy(product_data))
       /\ (pc # "idle" /\ PRODUCTS' # PRODUCTS /\ ret'.x # None) =>
              (pc = "stored" /\ product_id # None)
       /\ pc' = "stored" => product_id' # None
       /\ ((ret'.op = "is_valid_amazon_url" /\ ~ret'.ok)
           \/ (ret'.op = "get_product_details" /\ ~ret'.ok)) =>
              (store' = store /\ PRODUCTS' = PRODUCTS /\ pc' = "idle")]_vars

\* a /link passed every gate
C7_Witness ==
    /\ pc = "stored"
    /\ valid
    /\ product_id # None
    /\ Len(tries) = max_retries

\* C8: when db.add_product returns no id, the products, the categories and
\* the cache are what they were.
C8_NoPartialState ==
    [][(ret'.op = "add_product" /\ ~ret'.ok) =>
          /\ products' = products
          /\ categories' = categories
          /\ PRODUCTS' = PRODUCTS]_vars

\* the URL has a product-id marker
HasMarker(u) == InUrl("dp/", u) \/ InUrl("gp/product/", u)

\* C9: a URL that is_valid_amazon_url accepts has, once expanded, the
\* marketplace or the short-link host and a product-id marker.
C9_AcceptsOnlyProductUrls ==
    (ret.op = "is_valid_amazon_url" /\ ret.ok) =>
        /\ "amazon.in" \in Range(Netloc(ret.x)) \/ "amzn.to" \in Range(Netloc(ret.x))
        /\ HasMarker(ret.x)

\* C10: Database.add_user on a registered id keeps the stored joined_date
\* and sets last_active to the time of the call.
C10_JoinedDateKept ==
    [][(ret'.op = "add_user" /\ ret'.ok /\ FindUser(users, ret'.arg) # 0) =>
          LET i == FindUser(users, ret'.arg)
          IN /\ users'[i].joined_date = users[i].joined_date
             /\ users'[i].last_active = now]_vars

\* C11: the users collection never holds two documents with the same
\* telegram_id, whatever add_user and update_user_activity calls were made.
C11_OneRecordPerId ==
    \A i, j \in 1..Len(users) :
        users[i].telegram_id = users[j].telegram_id => i = j

\* an add_user call on a registered id has succeeded, with two users stored
C11_Witness ==
    /\ ret.op = "add_user" /\ ret.ok /\ ret.x # -1
    /\ Len(users) = 2

\* C12: update_user_activity(id) changes nothing but last_active of the
\* user with that id, which becomes the time of the call; on an unknown id
\* it adds no document, changes nothing, and returns True unless the store
\* raised.
C12_TouchFrame ==
    [][ret'.op = "update_user_activity" =>
          /\ Len(users') = Len(users)
          /\ \A i \in 1..Len(users) :
                IF users[i].telegram_id = ret'.arg
                THEN /\ users'[i] = [users[i] EXCEPT !.last_active = users'[i].last_active]
                     /\ ret'.ok => users'[i].last_active = now
                ELSE users'[i] = users[i]
          /\ FindUser(users, ret'.arg) = 0 => users' = users
          /\ ret'.n = 0 => ret'.ok]_vars

\* update_user_activity has refreshed a registered user, another one is stored
C12_Witness ==
    /\ ret.op = "update_user_activity" /\ ret.ok
    /\ Len(users) = 2
    /\ FindUser(users, ret.arg) # 0
    /\ users[FindUser(users, ret.arg)].last_active > users[FindUser(users, ret.arg)].joined_date

\* C13: add_category(name) returns False and changes nothing when the name
\* exists; when it does not exist and the store does not raise, it appends
\* one document with that name and returns True; a call that returns False
\* changes nothing; and no two documents of the collection share a name.
C13_AddCategoryUnique ==
    [][ /\ ret'.op = "add_category" =>
              /\ ret'.arg \in Names(categories) => (~ret'.ok /\ categories' = categories)
              /\ (ret'.arg \notin Names(categories) /\ ret'.n = 0) =>
                    /\ ret'.ok
                    /\ Len(categories') = Len(categories) + 1
                    /\ SubSeq(categories', 1, Len(categories)) = categories
                    /\ categories'[Len(categories')].name = ret'.arg
              /\ ~ret'.ok => categories' = categories
        /\ \A name \in Names(categories') : CountName(categories', name) = 1 ]_vars

\* add_category has refused a name that exists, with two categories stored
C13_Witness ==
    /\ ret.op = "add_category" /\ ~ret.ok /\ ret.n = 0
    /\ Len(categories) = 2
    /\ Len(products) >= 1

\* C14: ensure_category_exists(name) on a name that exists changes nothing
\* (created_at included); unless the store raises it returns True and leaves
\* exactly one category with that name; and one more call, at any time,
\* leaves the state of the first.
C14_EnsureIdempotent ==
    [][ret'.op = "ensure_category_exists" =>
          /\ ret'.arg \in Names(categories) => categories' = categories
          /\ ret'.n = 0 => (ret'.ok /\ CountName(categories', ret'.arg) = 1)
          /\ ret'.n = 0 =>
                \A t \in 0..MaxClock :
                    DbEnsureCategoryExists(categories', ret'.arg, t, FALSE) =
                        [categories |-> categories', ok |-> TRUE] ]_vars

\* ensure_category_exists has returned True on a category created earlier
C14_Witness ==
    /\ ret.op = "ensure_category_exists" /\ ret.ok
    /\ \E i \in 1..Len(categories) :
          categories[i].name = ret.arg /\ categories[i].created_at < now

\* C15: a call of Database.add_product that returns an id leaves a category
\* of that name in the store, has appended exactly one product with the
\* fields passed and that category, returns the str of its _id, and
\* get_products_by_category of that category then holds it once.
C15_AddProductPostcondition ==
    [][(ret'.op = "add_product" /\ ret'.ok) =>
          /\ ret'.arg \in Names(categories')
          /\ Len(products') = Len(products) + 1
          /\ SubSeq(products', 1, Len(products)) = products
          /\ LET doc == products'[Len(products')]
                 found == get_products_by_category(products', ret'.arg, FALSE)
             IN /\ doc.category = ret'.arg
                /\ doc.data = product_data
                /\ ret'.x # None
                /\ ret'.x = Str(doc.id)
                /\ Cardinality({i \in 1..Len(found) : found[i] = doc}) = 1 ]_vars

\* the stored products of category c, as the cache holds them
Grouped(c) ==
    LET docs == SelectSeq(products, LAMBDA d : d.category = c)
    IN [i \in 1..Len(docs) |-> [docs[i] EXCEPT !.id = <<"str", docs[i].id[2]>>]]

\* C16: after a load_products_from_db whose two reads succeeded, the keys of
\* the cache are the stored categories and the categories of the stored
\* products, and each key maps to the stored products of that category, in
\* store order (the empty list when there are none).
C16_CacheIsGrouping ==
    (ret.op = "load_products_from_db" /\ ret.ok) =>
        /\ Names(categories) \subseteq DOMAIN PRODUCTS
        /\ \A i \in 1..Len(products) : products[i].category \in DOMAIN PRODUCTS
        /\ \A c \in DOMAIN PRODUCTS :
              /\ c \in Names(categories) \/ \E i \in 1..Len(products) : products[i].category = c
              /\ PRODUCTS[c] = Grouped(c)

\* a reload has read a store with an empty category and a category of two products
C16_Witness ==
    /\ ret.op = "load_products_from_db" /\ ret.ok
    /\ \E c \in DOMAIN PRODUCTS : PRODUCTS[c] = <<>>
    /\ \E c \in DOMAIN PRODUCTS : Len(PRODUCTS[c]) = 2

\* round(n / d) for d > 0, halves to the even neighbour
RoundDiv(n, d) ==
    LET q == n \div d
        r == n % d
    IN IF 2 * r < d THEN q
       ELSE IF 2 * r > d THEN q + 1
       ELSE IF q % 2 = 0 THEN q ELSE q + 1

\* the number a cleaned price text denotes
PriceOf(text) == Float(SelectSeq(text, LAMBDA c : c \in Digits \cup {"."}))

\* C17: in the product data get_product_details returns, the discount is
\* the text of round(100 * (original - current) / original) followed by "%"
\* when both prices are there, both parse and the original is above 0, and
\* there is no discount field otherwise.
C17_DiscountRounded ==
    (pc = "extracted" /\ product_data # None) =>
        LET current_text == Get(product_data, "price")
            original_text == Get(product_data, "original_price")
        IN IF /\ current_text # None /\ original_text # None
              /\ ~PriceOf(current_text).error /\ ~PriceOf(original_text).error
              /\ PriceOf(original_text).num > 0
           THEN LET current == PriceOf(current_text)
                    original == PriceOf(original_text)
                IN Get(product_data, "discount") =
                       IntText(RoundDiv(100 * (original.num * current.den
                                               - current.num * original.den),
                                        original.num * current.den)) \o <<"%">>
           ELSE "discount" \notin DOMAIN product_data

\* the values of Python that are empty or unset: None, "" and []
Empty(v) == v = None \/ v = <<>>

\* C18: the product data get_product_details returns has no field whose
\* value is None, an empty text or an empty list.
C18_NoEmptyField ==
    (pc = "extracted" /\ product_data # None) =>
        \A k \in DOMAIN product_data : ~Empty(product_data[k])

\* C19: /category_remove without the confirm argument deletes neither a
\* category that has products in the store nor any of its products, and
\* when it asks for the confirmation it leaves store and cache unchanged.
C19_ConfirmRequired ==
    [][ /\ (ret'.op = "remove_category" /\ ~ret'.confirm
               /\ CountCategory(products, ret'.arg) > 0) =>
              (products' = products /\ categories' = categories /\ PRODUCTS' = PRODUCTS)
        /\ (ret'.op = "reply" /\ ret'.arg = "confirm?") =>
              (products' = products /\ categories' = categories /\ PRODUCTS' = PRODUCTS)
      ]_vars

\* the positions of the stored products whose _id, as a string, is id
Stored(docs, id) == {i \in 1..Len(docs) : <<"str", docs[i].id[2]>> = id}

\* C20: when /remove names a cached product that is in the store and the
\* store does not raise, remove_product deletes exactly that product and
\* returns True, and the cache after the reload does not hold it; and
\* remove_product returns False exactly when the products are unchanged.
C20_RemoveByIndex ==
    [][ret'.op = "remove_product" =>
          /\ (ret'.n = 0 /\ Stored(products, ret'.x) # {}) =>
                /\ ret'.ok
                /\ Len(products') = Len(products) - 1
                /\ Stored(products', ret'.x) = {}
                /\ \A c \in DOMAIN PRODUCTS' :
                      \A i \in 1..Len(PRODUCTS'[c]) : PRODUCTS'[c][i].id # ret'.x
          /\ ~ret'.ok <=> products' = products ]_vars

\* C21: when remove_category succeeds, the number of removed products that
\* is reported with the success (the number the reply of /category_remove
\* names) is the number of products that had that category before the call.
C21_CountReported ==
    [][(ret'.op = "remove_category" /\ ret'.ok) =>
          ret'.num_products = CountCategory(products, ret'.arg)]_vars

\* C22: update_product(id, fields) leaves every other product unchanged and
\* returns True exactly when a product was modified; the product with that
\* id then carries the fields passed and the time of the call as updated_at.
C22_UpdateProduct ==
    [][ret'.op = "update_product" =>
          /\ Len(products') = Len(products)
          /\ \A j \in 1..Len(products) :
                products[j].id # ret'.arg => products'[j] = products[j]
          /\ ret'.ok <=> products' # products
          /\ ret'.ok =>
                \E i \in 1..Len(products) :
                    /\ products[i].id = ret'.arg
                    /\ \A k \in DOMAIN ret'.x : products'[i].data[k] = ret'.x[k]
                    /\ \A k \in DOMAIN products[i].data \ DOMAIN ret'.x :
                          products'[i].data[k] = products[i].data[k]
                    /\ products'[i].updated_at = now ]_vars

\* C23: the cache is written only by load_products_from_db: a step of any
\* other handler (category_add, category_remove, send_deals, the more_
\* button, inline_query, and the rest) leaves PRODUCTS as it was; the
\* reload /remove makes after its store call is part of its step.
C23_OnlyReloadWrites ==
    [][PRODUCTS' # PRODUCTS =>
          ret'.op \in {"load_products_from_db", "remove_product"}]_vars

\* the mapping a run of load_products_from_db builds from the categories its
\* first read returned and the products of the store
Complete(cats, prods, cats_raise) ==
    Organize([c \in get_all_categories(cats, cats_raise) |-> <<>>], prods)

\* C24: a reload that aborts leaves PRODUCTS either the complete previous
\* mapping or the complete new mapping, never one that is partly built.
C24_NoPartialCache ==
    [][ret'.prods_fault = "other" =>
          \/ PRODUCTS' = PRODUCTS
          \/ PRODUCTS' = Complete(categories', products', ret'.cats_raise)]_vars

\* the step was a run of ping_service
PingRun ==
    \/ ret.op = "ping_service"
    \/ ret.op = "load_products_from_db" /\ ret.arg = "ping_service"

\* C25: every run of ping_service ends with a cache reload, whatever the
\* ping chat id is and whether or not the status message could be sent.
C25_PingReloads ==
    [][PingRun' => ret'.prods_fault # ""]_vars

\* C26: a reload during which the read of the categories or the read of the
\* products fails leaves PRODUCTS with its previous contents.
C26_KeptOnError ==
    [][(ret'.cats_raise \/ ret'.prods_fault \in {"PyMongoError", "other"}) =>
          PRODUCTS' = PRODUCTS]_vars

\* C27: a run of ping_service whose db.ping() failed makes exactly one
\* db.reconnect() call and a run whose ping succeeded makes none; after a
\* failure of either the run goes on to its status message and its reload;
\* after a reconnect that returned, the users, products and categories
\* handles belong to the new client.
C27_Recovery ==
    [][(PingRun' /\ ret'.ping # "") =>
          /\ ret'.reconnects = IF ret'.ping = "none" THEN 0 ELSE 1
          /\ ret'.n = 0
          /\ ret'.ping = "none" => conn' = conn
          /\ ret'.reconnected =>
                /\ conn'.client = conn.made + 1
                /\ conn'.db = conn'.client
                /\ conn'.users = conn'.client
                /\ conn'.products = conn'.client
                /\ conn'.categories = conn'.client]_vars

\* a run whose ping failed and whose reconnect returned
C27_Witness ==
    /\ PingRun
    /\ ret.ping # "none" /\ ret.ping # ""
    /\ ret.reconnected
    /\ conn.users = 2

\* C28: after failed attempt n of get_product_details (n = 1, 2) the backoff
\* slept before attempt n+1 lies within [3n, 6n] seconds; there is no
\* backoff after the last failed attempt, nor after an attempt that returns.
C28_Backoff ==
    [][ret'.op = "attempt" =>
          IF ~ret'.ok /\ ret'.n < max_retries /\ pc' = "extracting"
          THEN 3 * ret'.n <= ret'.wait /\ ret'.wait <= 6 * ret'.n
          ELSE ret'.wait = 0]_vars

\* the second attempt failed and the longest backoff was drawn
C28_Witness ==
    /\ ret.op = "attempt"
    /\ ~ret.ok
    /\ ret.n = 2
    /\ ret.wait = 12
    /\ pc = "extracting"

\* the number of tag parameters of the URL
TagCount(u) == Cardinality({i \in 1..Len(u) : u[i] = "tag="})

\* C29: the link of a product that get_product_details returns has exactly
\* one tag parameter, whatever URL was sent and however many attempts were
\* made.
C29_TaggedOnce ==
    (pc = "extracted" /\ Truthy(product_data)) => TagCount(product_data.link) = 1

\* C30: a /link, /remove, /category_add or /category_remove command of a
\* user who is not in ADMIN_IDS only sends a reply: it calls neither the
\* resolver, the extractor nor the store, starts no /link run, and leaves
\* the stored products and categories and the cache unchanged.
C30_AdminOnly ==
    [][(ret'.user # 0 /\ ret'.user \notin ADMIN_IDS) =>
          /\ ret'.op = "reply"
          /\ products' = products
          /\ categories' = categories
          /\ PRODUCTS' = PRODUCTS
          /\ nextId' = nextId
          /\ pending' = pending
          /\ pc' = pc]_vars

\* a user who is no admin sent a command while a product is stored and cached
C30_Witness ==
    /\ ret.user # 0 /\ ret.user \notin ADMIN_IDS
    /\ ret.op = "reply"
    /\ Len(products) > 0
    /\ \E c \in DOMAIN PRODUCTS : Len(PRODUCTS[c]) > 0

=============================================================================
